---- MODULE Spec2Model ----
(***************************************************************************)
(* The netcup CCP API client of terraform-provider-netcupdns               *)
(* (internal/client): the per-domain record cache DnsRecordsByDomain, the  *)
(* operations GetDnsRecords, GetDnsRecordById, CreateDnsRecord,            *)
(* UpdateDnsRecord and DeleteDnsRecord, and the remote DNS API they talk   *)
(* to through doRequest.  The provider calls one client from several       *)
(* goroutines; the client holds no lock, so every statement of an          *)
(* operation is a step of its own and the steps of different goroutines    *)
(* interleave.                                                             *)
(***************************************************************************)
EXTENDS Integers, Sequences, FiniteSets, TLC

\* ------------------------------------------------------------- bounds

\* Number of mutations the remote system applies in one run; it bounds the
\* record identifiers the remote assigns and the versions of a zone.
MaxWrites == 2

\* The goroutines that call the one client.
Procs == {"g1", "g2"}

Domains == {"a.de", "b.de"}

\* The identifiers the remote system can assign.
Ids == 1..MaxWrites

\* ------------------------------------------------------------ records

\* The precursors a caller creates records from (hostname, type, priority,
\* destination).  The third has an empty priority and so matches records of
\* any priority.
NewDnsRecords ==
    { [Hostname |-> "@", Type |-> "A",  Priority |-> "",   Destination |-> "1.2.3.4"],
      [Hostname |-> "@", Type |-> "MX", Priority |-> "10", Destination |-> "mail"],
      [Hostname |-> "@", Type |-> "MX", Priority |-> "",   Destination |-> "mail"] }

\* A record as the client holds it.
MkDnsRecord(id, n, del, st) ==
    [Id |-> id, Hostname |-> n.Hostname, Type |-> n.Type, Priority |-> n.Priority,
     Destination |-> n.Destination, DeleteRecord |-> del, State |-> st]

\* The identifiers assigned so far, after n applied mutations.
Assigned(n) == 1..n

\* The records a caller passes to UpdateDnsRecord, built from an identifier the
\* remote system has assigned and the planned fields, deletion flag unset.
UpdateRecords(assigned, planned) ==
    { MkDnsRecord(i, n, FALSE, "") : i \in Assigned(assigned), n \in planned }

\* The records a caller passes to DeleteDnsRecord; the remote system reads
\* only the identifier and the deletion flag of these.
DeleteRecords(assigned) ==
    { MkDnsRecord(i, [Hostname |-> "@", Type |-> "A", Priority |-> "",
                      Destination |-> "1.2.3.4"], FALSE, "") : i \in Assigned(assigned) }

\* Matches with the priorities always compared.
MatchesExactPriority(r, r2) ==
    /\ r.Hostname = r2.Hostname /\ r.Type = r2.Type /\ r.Destination = r2.Destination
    /\ r.Priority = r2.Priority

\* Matches with the priorities never compared.
MatchesIgnoringPriority(r, r2) ==
    r.Hostname = r2.Hostname /\ r.Type = r2.Type /\ r.Destination = r2.Destination

\* NewDnsRecord.Matches
Matches(r, r2) ==
    LET isMatch == r.Hostname = r2.Hostname /\ r.Type = r2.Type
                   /\ r.Destination = r2.Destination
    IN  IF r.Priority # "" THEN isMatch /\ r.Priority = r2.Priority ELSE isMatch

\* A pointer result: <<r>> for &r, <<>> for nil.
Nil == <<>>

\* findRecordById falling back to the first record of the list.
findRecordByIdOrFirst(recs, id) ==
    LET at == {i \in 1..Len(recs) : recs[i].Id = id}
    IN  IF at # {} THEN <<recs[CHOOSE i \in at : \A j \in at : i <= j]>>
        ELSE IF recs # <<>> THEN <<recs[1]>> ELSE Nil

\* findRecordById returning the record its loop ended on when none has the
\* identifier.
findRecordByIdOrLast(recs, id) ==
    LET at == {i \in 1..Len(recs) : recs[i].Id = id}
    IN  IF at # {} THEN <<recs[CHOOSE i \in at : \A j \in at : i <= j]>>
        ELSE IF recs # <<>> THEN <<recs[Len(recs)]>> ELSE Nil

RECURSIVE findRecordById(_, _)
\* The first record of the list whose identifier is id, or nil.
findRecordById(recs, id) ==
    IF recs = <<>> THEN Nil
    ELSE IF Head(recs).Id = id THEN <<Head(recs)>>
    ELSE findRecordById(Tail(recs), id)

\* findNewRecord refusing an ambiguous match.
findNewRecordUnique(newRecords, requestedRecord) ==
    LET at == {i \in 1..Len(newRecords) : Matches(requestedRecord, newRecords[i])}
    IN  IF Cardinality(at) = 1 THEN <<newRecords[CHOOSE i \in at : TRUE]>> ELSE Nil

\* findNewRecord returning the record its loop ended on when none matches.
findNewRecordOrLast(newRecords, requestedRecord) ==
    LET at == {i \in 1..Len(newRecords) : Matches(requestedRecord, newRecords[i])}
    IN  IF at # {} THEN <<newRecords[CHOOSE i \in at : \A j \in at : i <= j]>>
        ELSE IF newRecords # <<>> THEN <<newRecords[Len(newRecords)]>> ELSE Nil

\* findNewRecord returning the last record the precursor matches.
findNewRecordLastMatch(newRecords, requestedRecord) ==
    LET at == {i \in 1..Len(newRecords) : Matches(requestedRecord, newRecords[i])}
    IN  IF at # {} THEN <<newRecords[CHOOSE i \in at : \A j \in at : i >= j]>>
        ELSE Nil

RECURSIVE findNewRecord(_, _)
\* The first record of the list the requested precursor matches, or nil.
findNewRecord(newRecords, requestedRecord) ==
    IF newRecords = <<>> THEN Nil
    ELSE IF Matches(requestedRecord, Head(newRecords)) THEN <<Head(newRecords)>>
    ELSE findNewRecord(Tail(newRecords), requestedRecord)

\* ------------------------------------------------------------- state

VARIABLES
    DnsRecordsByDomain, \* the cache: a map from the cached domains to their lists
    zone,               \* the remote system: each domain's record list
    clock,              \* the mutations the remote system has applied so far
    pc,                 \* each goroutine's position in its operation
    call,               \* each goroutine's operation and arguments
    body,               \* each goroutine's response from doRequest
    records,            \* each goroutine's local list in GetDnsRecords
    result,             \* what each goroutine's operation returns
    reqs,               \* Transport requests the goroutine's invocation issued
    crashed,            \* the Go runtime ended the process (fatal error)
    obs,                \* history: what a goroutine's invocation saw
    cacheVer,           \* history: the zone version of each cache entry
    zoneVer,            \* history: the version of each remote zone
    retVer,             \* history: the newest version whose mutating call returned
    lastGet,            \* history: the list of the last Get, no write since
    lastCall,           \* history: the call that returned last
    authData,           \* the client's triple: customer number, API key, session id
    ctor,               \* what NewCCPClient returned, and the login response
    session,            \* the remote system: the state of the account's session
    logins,             \* login requests sent so far
    input,              \* the input a function is applied to
    output              \* what the function returned for it

\* The variables of construction and of the session.
sessionVars == <<authData, ctor, session, logins>>

\* The variables of a function's application.
fnVars == <<input, output>>

\* The variables of the client's operations.
operationVars == <<DnsRecordsByDomain, zone, clock, pc, call, body, records, result, reqs,
                   crashed, obs, cacheVer, zoneVer, retVer, lastGet, lastCall>>

vars == <<operationVars, sessionVars, fnVars>>

NoCall == [op |-> "", domainName |-> "", id |-> 0, newRecord |-> <<>>, record |-> <<>>]
NoBody == [err |-> FALSE, decodable |-> FALSE, status |-> "", dnsrecords |-> <<>>]
NoResult == [err |-> "", records |-> <<>>, record |-> Nil]
NoWrite == [op |-> "", domainName |-> "", id |-> 0, applied |-> FALSE]

\* The account's credentials, and the session id the remote system gives it.
Credentials == [CustomerNumber |-> "4711", APIKey |-> "key", APIPassword |-> "password"]
SessionId == "s1"

\* The zero value of AuthData.
NoAuthData == [CustomerNumber |-> "", APIKey |-> "", SessionId |-> ""]

\* No request sent.
NoRequest == [action |-> "", AuthData |-> NoAuthData, DomainName |-> "",
              dnsrecords |-> <<>>]

NoObs == [ver |-> 0, need |-> 0, hit |-> FALSE, after |-> NoWrite, session |-> "",
          req |-> NoRequest]

\* doRequest's outcomes for the login action: an error, or the body of a 200
\* response, which json.Unmarshal decodes into a LoginResponse or not.
LoginTransportError ==
    [err |-> TRUE, decodable |-> FALSE, status |-> "", apisessionid |-> ""]
LoginUndecodable ==
    [err |-> FALSE, decodable |-> FALSE, status |-> "", apisessionid |-> ""]
LoginJson(status, sid) ==
    [err |-> FALSE, decodable |-> TRUE, status |-> status, apisessionid |-> sid]

\* Before NewCCPClient is called.
NoCtor == [called |-> FALSE, client |-> FALSE, err |-> "", body |-> LoginUndecodable,
           reqs |-> 0]

NoInput == [fn |-> ""]
NoOutput == <<>>

\* No operation has been called: an empty cache, empty zones, idle goroutines.
InitOperations ==
    /\ DnsRecordsByDomain = <<>>
    /\ zone = [d \in Domains |-> <<>>]
    /\ clock = 0
    /\ pc = [p \in Procs |-> "idle"]
    /\ call = [p \in Procs |-> NoCall]
    /\ body = [p \in Procs |-> NoBody]
    /\ records = [p \in Procs |-> <<>>]
    /\ result = [p \in Procs |-> NoResult]
    /\ reqs = [p \in Procs |-> 0]
    /\ crashed = FALSE
    /\ obs = [p \in Procs |-> NoObs]
    /\ cacheVer = <<>>
    /\ zoneVer = [d \in Domains |-> 0]
    /\ retVer = [d \in Domains |-> 0]
    /\ lastGet = [d \in Domains |-> <<>>]
    /\ lastCall = NoWrite

\* NewCCPClient has returned a client whose login the remote system answered
\* with a session.
Constructed ==
    /\ authData = [CustomerNumber |-> Credentials.CustomerNumber,
                   APIKey |-> Credentials.APIKey, SessionId |-> SessionId]
    /\ ctor = [called |-> TRUE, client |-> TRUE, err |-> "",
               body |-> LoginJson("success", SessionId), reqs |-> 1]
    /\ session = "valid"
    /\ logins = 1

\* No function is being applied.
NoFunction == input = NoInput /\ output = NoOutput

Init == InitOperations /\ Constructed /\ NoFunction

\* ------------------------------------------------------------- cache

\* A lookup that takes an empty cached list for a missing entry.
PresentNonEmpty(m, k) == k \in DOMAIN m /\ m[k] # <<>>

\* records, present := m[k]
Present(m, k) == k \in DOMAIN m

\* m[k] = v
MapStore(m, k, v) == [x \in (DOMAIN m) \cup {k} |-> IF x = k THEN v ELSE m[x]]

\* A flush that removes nothing.
MapDeleteNothing(m, k) == m

\* delete(m, k)
MapDelete(m, k) == [x \in (DOMAIN m) \ {k} |-> m[x]]

\* The map is a plain Go map with no lock around it.  A goroutine at one of
\* these positions is executing a map access.
Reading(p) == pc[p] = "lookup"
Writing(p) == pc[p] \in {"store", "flush"}

\* The map access goroutine p is executing overlaps an access of another
\* goroutine, and one of the two writes the map.
Races(p) ==
    \E q \in Procs \ {p} :
        \/ Writing(p) /\ (Reading(q) \/ Writing(q))
        \/ Reading(p) /\ Writing(q)

\* What an access can end in.  Unsynchronised map accesses of which one is a
\* write are a data race: the runtime may detect it and end the process with
\* a fatal error ("concurrent map writes", "concurrent map read and map
\* write"), or the accesses may take effect one after the other.
Outcomes(p) == IF Races(p) THEN {"done", "fatal"} ELSE {"done"}

\* --------------------------------------------------------- Transport

\* What the HTTP exchange of one request can come to: httpClient.Do fails or
\* gives a response of some status, whose body ioutil.ReadAll reads or fails
\* to read.  (json.Marshal of the request structs and http.NewRequest with
\* the fixed URL do not fail.)
StatusCodes == {200, 201, 404, 500}
Payloads == {"", "{}", "<html>"}
Exchanges ==
    [do : {"ok", "error"}, StatusCode : StatusCodes, read : {"ok", "error"},
     body : Payloads]

\* doRequest taking every 2xx status for a success.
doRequestAny2xx(x) ==
    IF x.do # "ok" THEN [body |-> Nil, err |-> "Do"]
    ELSE IF x.read # "ok" THEN [body |-> Nil, err |-> "ReadAll"]
    ELSE IF x.StatusCode < 200 \/ x.StatusCode > 299
    THEN [body |-> Nil, err |-> "status"]
    ELSE [body |-> <<x.body>>, err |-> ""]

\* doRequest on exchange x: the body (<<b>>, or nil) and the error ("" for
\* nil) it returns.
doRequest(x) ==
    IF x.do # "ok" THEN [body |-> Nil, err |-> "Do"]
    ELSE IF x.read # "ok" THEN [body |-> Nil, err |-> "ReadAll"]
    ELSE IF x.StatusCode # 200 THEN [body |-> Nil, err |-> "status"]
    ELSE [body |-> <<x.body>>, err |-> ""]

\* ------------------------------------------------- the remote system

\* doRequest's outcomes: an error (a network failure or a status other than
\* 200), or the body of a 200 response, which json.Unmarshal decodes or not.
TransportError == [err |-> TRUE, decodable |-> FALSE, status |-> "", dnsrecords |-> <<>>]
Undecodable == [err |-> FALSE, decodable |-> FALSE, status |-> "", dnsrecords |-> <<>>]
Json(status, recs) ==
    [err |-> FALSE, decodable |-> TRUE, status |-> status, dnsrecords |-> recs]

\* The remote system serves a request that carries the session id of the
\* account's session, while that session is valid.
Authorized == session = "valid" /\ authData.SessionId = SessionId

\* The responses to infoDnsRecords for domain d: the zone's records, or an
\* envelope that reports an error and carries no records.  A request the
\* remote system does not serve gets no records.
InfoDnsRecords(d) ==
    {TransportError, Undecodable, Json("error", <<>>)}
    \cup IF Authorized THEN {Json("success", zone[d])} ELSE {}

InsertAt(recs, i, r) == SubSeq(recs, 1, i - 1) \o <<r>> \o SubSeq(recs, i, Len(recs))

RemoveId(recs, id) == SelectSeq(recs, LAMBDA r : r.Id # id)

\* The remote system stores an empty priority as "0".
Stored(priority) == IF priority = "" THEN "0" ELSE priority

ReplaceId(recs, r) ==
    [i \in 1..Len(recs) |->
        IF recs[i].Id = r.Id
        THEN [recs[i] EXCEPT !.Hostname = r.Hostname, !.Type = r.Type,
                             !.Priority = Stored(r.Priority),
                             !.Destination = r.Destination]
        ELSE recs[i]]

HasId(recs, id) == \E i \in 1..Len(recs) : recs[i].Id = id

\* The record lists the zone of d can hold once the remote system has applied
\* the one record of an updateDnsRecords request: a record without identifier
\* is created under a fresh identifier, anywhere in the list, an empty priority
\* stored as "0"; a record with the deletion flag is removed; any other record
\* replaces the one of its identifier.  No list when the identifier is unknown.
Applied(d, sent) ==
    IF "Id" \notin DOMAIN sent
    THEN LET n == [sent EXCEPT !.Priority = Stored(sent.Priority)]
         IN  { InsertAt(zone[d], i, MkDnsRecord(clock + 1, n, FALSE, "unknown")) :
                   i \in 1..(Len(zone[d]) + 1) }
    ELSE IF ~HasId(zone[d], sent.Id) THEN {}
    ELSE IF sent.DeleteRecord THEN {RemoveId(zone[d], sent.Id)}
    ELSE {ReplaceId(zone[d], sent)}

\* The outcomes of updateDnsRecords for domain d: the response and the zone
\* afterwards.  The remote system applies the record and answers with the
\* zone's records, or rejects it in an envelope that reports an error, with
\* no records or with the unchanged ones, or the request fails.
UpdateDnsRecords(d, sent) ==
    { [body |-> b, zone |-> zone[d], applied |-> FALSE] :
        b \in {TransportError, Undecodable, Json("error", <<>>)}
              \cup IF Authorized THEN {Json("error", zone[d])} ELSE {} }
    \cup
    IF Authorized /\ clock < MaxWrites
    THEN { [body |-> Json("success", z), zone |-> z, applied |-> TRUE] : z \in Applied(d, sent) }
    ELSE {}

\* ------------------------------------------------------- operations

\* The remote system's answers to login: the request fails, the response is
\* not a LoginResponse, the credentials are rejected in an envelope without
\* session id, or a session begins and its id is in the response.
Login(credentials) ==
    { [body |-> b, session |-> "none"] :
        b \in {LoginTransportError, LoginUndecodable, LoginJson("error", "")} }
    \cup { [body |-> LoginJson("success", SessionId), session |-> "valid"] }

\* A json.Unmarshal that takes the nil body of a failed request for an empty
\* LoginResponse.
UnmarshalNilAsEmpty(b) == IF ~b.err /\ ~b.decodable THEN "decode" ELSE ""

\* err = json.Unmarshal(body, &res) on what doRequest returned: the body is
\* nil after an error of doRequest, and json.Unmarshal fails on an empty
\* input as it does on any input that is not JSON of the expected shape.
Unmarshal(b) == IF b.err \/ ~b.decodable THEN "decode" ELSE ""

\* login with doRequest's outcome b: the error it returns and the triple it
\* leaves in the client.  The error of doRequest is overwritten by the error
\* of json.Unmarshal before it is looked at.
login(credentials, b) ==
    LET err == Unmarshal(b) IN
    IF err # "" THEN [err |-> err, authData |-> NoAuthData]
    ELSE [err |-> "",
          authData |-> [CustomerNumber |-> credentials.CustomerNumber,
                        APIKey |-> credentials.APIKey,
                        SessionId |-> b.apisessionid]]

\* NewCCPClient: the one login request, and a client when login returned no
\* error.
NewCCPClient ==
    /\ ~ctor.called
    /\ \E out \in Login(Credentials) :
        LET r == login(Credentials, out.body) IN
        /\ ctor' = [called |-> TRUE, client |-> r.err = "", err |-> r.err,
                    body |-> out.body, reqs |-> 1]
        /\ authData' = r.authData
        /\ session' = out.session
        /\ logins' = logins + 1
    /\ UNCHANGED <<operationVars, fnVars>>

\* The remote system ends the session.
Invalidate ==
    /\ session = "valid"
    /\ session' = "invalid"
    /\ UNCHANGED <<operationVars, authData, ctor, logins, fnVars>>

\* The operations run on a client NewCCPClient returned, while the process
\* lives.
Running == ~crashed /\ ctor.client

\* GetDnsRecords(domainName) is called, alone or from GetDnsRecordById, and
\* begins the cache lookup.
CallGet(p, op, d, id) ==
    /\ Running /\ pc[p] = "idle"
    /\ pc' = [pc EXCEPT ![p] = "lookup"]
    /\ call' = [call EXCEPT ![p] = [NoCall EXCEPT !.op = op, !.domainName = d, !.id = id]]
    /\ obs' = [obs EXCEPT ![p] =
                  [NoObs EXCEPT !.need = retVer[d],
                                !.after = IF lastCall.domainName = d THEN lastCall
                                          ELSE NoWrite,
                                !.session = session]]
    /\ lastCall' = NoWrite
    /\ UNCHANGED <<DnsRecordsByDomain, zone, clock, body, records, result, reqs, crashed,
                   cacheVer, zoneVer, retVer, lastGet>>
    /\ UNCHANGED <<sessionVars, fnVars>>

GetDnsRecords(p) == \E d \in Domains : CallGet(p, "GetDnsRecords", d, 0)

GetDnsRecordById(p) ==
    \E d \in Domains, id \in Ids : CallGet(p, "GetDnsRecordById", d, id)

\* What the call returns once GetDnsRecords has returned recs without error:
\* the list itself, or GetDnsRecordById's scan of it.
GetResult(c, recs) ==
    IF c.op = "GetDnsRecords" THEN [NoResult EXCEPT !.records = recs]
    ELSE LET found == findRecordById(recs, c.id)
         IN  IF found # Nil THEN [NoResult EXCEPT !.record = found]
             ELSE [NoResult EXCEPT !.err = "could not find DNS record with ID"]

\* The cache lookup ends: a cached list is returned, a miss goes on to fetch.
Lookup(p) ==
    /\ Running /\ pc[p] = "lookup"
    /\ \E o \in Outcomes(p) :
        LET d == call[p].domainName IN
        IF o = "fatal"
        THEN /\ crashed' = TRUE
             /\ UNCHANGED <<pc, records, result, obs>>
        ELSE /\ crashed' = crashed
             /\ IF Present(DnsRecordsByDomain, d)
                THEN /\ records' = [records EXCEPT ![p] = DnsRecordsByDomain[d]]
                     /\ result' = [result EXCEPT ![p] = GetResult(call[p], DnsRecordsByDomain[d])]
                     /\ obs' = [obs EXCEPT ![p].ver = cacheVer[d], ![p].hit = TRUE]
                     /\ pc' = [pc EXCEPT ![p] = "done"]
                ELSE /\ pc' = [pc EXCEPT ![p] = "fetch"]
                     /\ UNCHANGED <<records, result, obs>>
    /\ UNCHANGED <<DnsRecordsByDomain, zone, clock, call, body, reqs,
                   cacheVer, zoneVer, retVer, lastGet, lastCall>>
    /\ UNCHANGED <<sessionVars, fnVars>>

\* A request that carries the customer number and the API key, and no
\* session id.
RequestBodyNoSession(action, auth, d, recs) ==
    [action |-> action, AuthData |-> [auth EXCEPT !.SessionId = ""],
     DomainName |-> d, dnsrecords |-> recs]

\* The RequestBody of doRequest(action, param) for a param that embeds a
\* DomainInfoRequest (the triple and the domain name) and, for
\* updateDnsRecords, carries the record set.
RequestBody(action, auth, d, recs) ==
    [action |-> action, AuthData |-> auth, DomainName |-> d, dnsrecords |-> recs]

\* A fetch that caches an empty list for the domain when it fails.
FetchCachingFailure(p) ==
    /\ Running /\ pc[p] = "fetch"
    /\ \E b \in InfoDnsRecords(call[p].domainName) :
        /\ body' = [body EXCEPT ![p] = b]
        /\ reqs' = [reqs EXCEPT ![p] = reqs[p] + 1]
        /\ IF b.err \/ ~b.decodable
           THEN /\ result' = [result EXCEPT ![p] =
                                 [NoResult EXCEPT !.err = IF b.err THEN "transport"
                                                          ELSE "decode"]]
                /\ pc' = [pc EXCEPT ![p] = "done"]
                /\ DnsRecordsByDomain' =
                       MapStore(DnsRecordsByDomain, call[p].domainName, <<>>)
                /\ cacheVer' = MapStore(cacheVer, call[p].domainName, 0)
                /\ UNCHANGED <<records, obs>>
           ELSE /\ records' = [records EXCEPT ![p] = b.dnsrecords]
                /\ obs' = [obs EXCEPT ![p].ver = zoneVer[call[p].domainName]]
                /\ pc' = [pc EXCEPT ![p] = "store"]
                /\ UNCHANGED <<result, DnsRecordsByDomain, cacheVer>>
    /\ UNCHANGED <<zone, clock, call, crashed, zoneVer, retVer, lastGet, lastCall>>
    /\ UNCHANGED <<sessionVars, fnVars>>

\* A fetch that fails on an envelope that does not report success.
FetchInspecting(p) ==
    /\ Running /\ pc[p] = "fetch"
    /\ \E b \in InfoDnsRecords(call[p].domainName) :
        /\ body' = [body EXCEPT ![p] = b]
        /\ reqs' = [reqs EXCEPT ![p] = reqs[p] + 1]
        /\ IF b.err \/ ~b.decodable \/ b.status # "success"
           THEN /\ result' = [result EXCEPT ![p] =
                                 [NoResult EXCEPT !.err = IF b.err THEN "transport"
                                                          ELSE IF ~b.decodable THEN "decode"
                                                          ELSE "api"]]
                /\ pc' = [pc EXCEPT ![p] = "done"]
                /\ UNCHANGED <<records, obs>>
           ELSE /\ records' = [records EXCEPT ![p] = b.dnsrecords]
                /\ obs' = [obs EXCEPT ![p].ver = zoneVer[call[p].domainName]]
                /\ pc' = [pc EXCEPT ![p] = "store"]
                /\ UNCHANGED result
    /\ UNCHANGED <<DnsRecordsByDomain, zone, clock, call, crashed,
                   cacheVer, zoneVer, retVer, lastGet, lastCall>>
    /\ UNCHANGED <<sessionVars, fnVars>>

\* A fetch that sends its request again after a request that failed.
FetchRetrying(p) ==
    /\ Running /\ pc[p] = "fetch"
    /\ \E b \in InfoDnsRecords(call[p].domainName) :
        /\ body' = [body EXCEPT ![p] = b]
        /\ reqs' = [reqs EXCEPT ![p] = reqs[p] + 1]
        /\ IF b.err /\ reqs[p] = 0
           THEN UNCHANGED <<pc, result, records, obs>>
           ELSE IF b.err \/ ~b.decodable
           THEN /\ result' = [result EXCEPT ![p] =
                                 [NoResult EXCEPT !.err = IF b.err THEN "transport"
                                                          ELSE "decode"]]
                /\ pc' = [pc EXCEPT ![p] = "done"]
                /\ UNCHANGED <<records, obs>>
           ELSE /\ records' = [records EXCEPT ![p] = b.dnsrecords]
                /\ obs' = [obs EXCEPT ![p].ver = zoneVer[call[p].domainName]]
                /\ pc' = [pc EXCEPT ![p] = "store"]
                /\ UNCHANGED result
    /\ UNCHANGED <<DnsRecordsByDomain, zone, clock, call, crashed,
                   cacheVer, zoneVer, retVer, lastGet, lastCall>>
    /\ UNCHANGED <<sessionVars, fnVars>>

\* doRequest("infoDnsRecords") and the decoding of its response; a decoded
\* list goes on to be stored.
Fetch(p) ==
    /\ Running /\ pc[p] = "fetch"
    /\ \E b \in InfoDnsRecords(call[p].domainName) :
        LET req == RequestBody("infoDnsRecords", authData, call[p].domainName, <<>>) IN
        /\ body' = [body EXCEPT ![p] = b]
        /\ reqs' = [reqs EXCEPT ![p] = reqs[p] + 1]
        /\ IF b.err
           THEN /\ result' = [result EXCEPT ![p] = [NoResult EXCEPT !.err = "transport"]]
                /\ pc' = [pc EXCEPT ![p] = "done"]
                /\ obs' = [obs EXCEPT ![p].req = req]
                /\ UNCHANGED records
           ELSE IF ~b.decodable
           THEN /\ result' = [result EXCEPT ![p] = [NoResult EXCEPT !.err = "decode"]]
                /\ pc' = [pc EXCEPT ![p] = "done"]
                /\ obs' = [obs EXCEPT ![p].req = req]
                /\ UNCHANGED records
           ELSE /\ records' = [records EXCEPT ![p] = b.dnsrecords]
                /\ obs' = [obs EXCEPT ![p].ver = zoneVer[call[p].domainName],
                                      ![p].req = req]
                /\ pc' = [pc EXCEPT ![p] = "store"]
                /\ UNCHANGED result
    /\ UNCHANGED <<DnsRecordsByDomain, zone, clock, call, crashed,
                   cacheVer, zoneVer, retVer, lastGet, lastCall>>
    /\ UNCHANGED <<sessionVars, fnVars>>

\* The fetched list is stored in the cache and returned.
Store(p) ==
    /\ Running /\ pc[p] = "store"
    /\ \E o \in Outcomes(p) :
        LET d == call[p].domainName IN
        IF o = "fatal"
        THEN /\ crashed' = TRUE
             /\ UNCHANGED <<DnsRecordsByDomain, cacheVer, pc, result>>
        ELSE /\ crashed' = crashed
             /\ DnsRecordsByDomain' = MapStore(DnsRecordsByDomain, d, records[p])
             /\ cacheVer' = MapStore(cacheVer, d, obs[p].ver)
             /\ result' = [result EXCEPT ![p] = GetResult(call[p], records[p])]
             /\ pc' = [pc EXCEPT ![p] = "done"]
    /\ UNCHANGED <<zone, clock, call, body, records, reqs, obs,
                   zoneVer, retVer, lastGet, lastCall>>
    /\ UNCHANGED <<sessionVars, fnVars>>

\* CreateDnsRecord, UpdateDnsRecord or DeleteDnsRecord is called and begins to
\* flush the domain's cache entry.
CallWrite(p, op, d, newRecord, record) ==
    /\ Running /\ pc[p] = "idle"
    /\ pc' = [pc EXCEPT ![p] = "flush"]
    /\ call' = [call EXCEPT ![p] = [NoCall EXCEPT !.op = op, !.domainName = d,
                                                  !.newRecord = newRecord,
                                                  !.record = record]]
    /\ obs' = [obs EXCEPT ![p] = [NoObs EXCEPT !.session = session]]
    /\ lastGet' = [lastGet EXCEPT ![d] = <<>>]
    /\ lastCall' = NoWrite
    /\ UNCHANGED <<DnsRecordsByDomain, zone, clock, body, records, result, reqs, crashed,
                   cacheVer, zoneVer, retVer>>
    /\ UNCHANGED <<sessionVars, fnVars>>

CreateDnsRecord(p, news) ==
    \E d \in Domains, n \in news : CallWrite(p, "CreateDnsRecord", d, <<n>>, <<>>)

UpdateDnsRecord(p, news) ==
    \E d \in Domains, r \in UpdateRecords(clock, news) :
        CallWrite(p, "UpdateDnsRecord", d, <<>>, <<r>>)

DeleteDnsRecord(p) ==
    \E d \in Domains, r \in DeleteRecords(clock) :
        CallWrite(p, "DeleteDnsRecord", d, <<>>, <<r>>)

\* delete(c.DnsRecordsByDomain, domainName) ends; the request is next.
Flush(p) ==
    /\ Running /\ pc[p] = "flush"
    /\ \E o \in Outcomes(p) :
        IF o = "fatal"
        THEN /\ crashed' = TRUE
             /\ UNCHANGED <<DnsRecordsByDomain, cacheVer, pc>>
        ELSE /\ crashed' = crashed
             /\ DnsRecordsByDomain' = MapDelete(DnsRecordsByDomain, call[p].domainName)
             /\ cacheVer' = MapDelete(cacheVer, call[p].domainName)
             /\ pc' = [pc EXCEPT ![p] = "request"]
    /\ UNCHANGED <<zone, clock, call, body, records, result, reqs, obs,
                   zoneVer, retVer, lastGet, lastCall>>
    /\ UNCHANGED <<sessionVars, fnVars>>

\* The request's record with the deletion flag cleared by UpdateDnsRecord too.
SentFlagForced(c) ==
    IF c.op = "CreateDnsRecord" THEN c.newRecord[1]
    ELSE [c.record[1] EXCEPT !.DeleteRecord = (c.op = "DeleteDnsRecord")]

\* The request's record with the deletion flag never set.
SentAsGiven(c) == IF c.op = "CreateDnsRecord" THEN c.newRecord[1] ELSE c.record[1]

\* The one record of the request's record set.
Sent(c) ==
    IF c.op = "CreateDnsRecord" THEN c.newRecord[1]
    ELSE IF c.op = "DeleteDnsRecord" THEN [c.record[1] EXCEPT !.DeleteRecord = TRUE]
    ELSE c.record[1]

\* A write in which DeleteDnsRecord too decodes its response and fails when
\* it cannot.
WriteResultDecoding(c, b) ==
    IF b.err THEN [NoResult EXCEPT !.err = "transport"]
    ELSE IF ~b.decodable THEN [NoResult EXCEPT !.err = "decode"]
    ELSE IF c.op = "DeleteDnsRecord" THEN NoResult
    ELSE IF c.op = "CreateDnsRecord"
    THEN LET newRecord == findNewRecord(b.dnsrecords, c.newRecord[1])
         IN  IF newRecord = Nil
             THEN [NoResult EXCEPT !.err = "could not retrieve newly created DNS record"]
             ELSE [NoResult EXCEPT !.record = newRecord]
    ELSE LET newRecord == findRecordById(b.dnsrecords, c.record[1].Id)
         IN  IF newRecord = Nil
             THEN [NoResult EXCEPT !.err = "could not find DNS record with ID"]
             ELSE [NoResult EXCEPT !.record = newRecord]

\* A write that decodes every response and fails on an envelope that does not
\* report success.
WriteResultInspecting(c, b) ==
    IF b.err THEN [NoResult EXCEPT !.err = "transport"]
    ELSE IF ~b.decodable THEN [NoResult EXCEPT !.err = "decode"]
    ELSE IF b.status # "success" THEN [NoResult EXCEPT !.err = "api"]
    ELSE IF c.op = "DeleteDnsRecord" THEN NoResult
    ELSE IF c.op = "CreateDnsRecord"
    THEN LET newRecord == findNewRecord(b.dnsrecords, c.newRecord[1])
         IN  IF newRecord = Nil
             THEN [NoResult EXCEPT !.err = "could not retrieve newly created DNS record"]
             ELSE [NoResult EXCEPT !.record = newRecord]
    ELSE LET newRecord == findRecordById(b.dnsrecords, c.record[1].Id)
         IN  IF newRecord = Nil
             THEN [NoResult EXCEPT !.err = "could not find DNS record with ID"]
             ELSE [NoResult EXCEPT !.record = newRecord]

\* What a write returns for response b.
WriteResult(c, b) ==
    IF b.err THEN [NoResult EXCEPT !.err = "transport"]
    ELSE IF c.op = "DeleteDnsRecord" THEN NoResult
    ELSE IF ~b.decodable THEN [NoResult EXCEPT !.err = "decode"]
    ELSE IF c.op = "CreateDnsRecord"
    THEN LET newRecord == findNewRecord(b.dnsrecords, c.newRecord[1])
         IN  IF newRecord = Nil
             THEN [NoResult EXCEPT !.err = "could not retrieve newly created DNS record"]
             ELSE [NoResult EXCEPT !.record = newRecord]
    ELSE LET newRecord == findRecordById(b.dnsrecords, c.record[1].Id)
         IN  IF newRecord = Nil
             THEN [NoResult EXCEPT !.err = "could not find DNS record with ID"]
             ELSE [NoResult EXCEPT !.record = newRecord]

\* doRequest("updateDnsRecords") with the one record, and what the operation
\* makes of the response.
Request(p) ==
    /\ Running /\ pc[p] = "request"
    /\ \E out \in UpdateDnsRecords(call[p].domainName, Sent(call[p])) :
        LET d == call[p].domainName IN
        /\ zone' = [zone EXCEPT ![d] = out.zone]
        /\ clock' = IF out.applied THEN clock + 1 ELSE clock
        /\ zoneVer' = IF out.applied THEN [zoneVer EXCEPT ![d] = clock + 1] ELSE zoneVer
        /\ obs' = [obs EXCEPT ![p].ver = IF out.applied THEN clock + 1 ELSE @,
                              ![p].req = RequestBody("updateDnsRecords", authData, d,
                                                     <<Sent(call[p])>>)]
        /\ body' = [body EXCEPT ![p] = out.body]
        /\ reqs' = [reqs EXCEPT ![p] = reqs[p] + 1]
        /\ result' = [result EXCEPT ![p] = WriteResult(call[p], out.body)]
        /\ pc' = [pc EXCEPT ![p] = "done"]
    /\ UNCHANGED <<DnsRecordsByDomain, call, records, crashed,
                   cacheVer, retVer, lastGet, lastCall>>
    /\ UNCHANGED <<sessionVars, fnVars>>

\* The provider's Update: the state it writes once UpdateDnsRecord, called
\* with the planned domain name and a record of the prior state's identifier,
\* has returned res.  An error leaves the state as it was.
Update(state, plan, res) ==
    IF res.err # "" THEN state
    ELSE [ID |-> state.ID, Domainname |-> plan.Domainname,
          Hostname |-> res.record[1].Hostname, Type |-> res.record[1].Type,
          Priority |-> res.record[1].Priority,
          Destination |-> res.record[1].Destination]

\* A provider's Delete that removes the resource whatever DeleteDnsRecord
\* returned.
DeleteRemovingAlways(state, res) ==
    [state |-> <<>>,
     diagnostics |-> IF res.err # "" THEN <<"Error deleting record">> ELSE <<>>]

\* The provider's Delete: the stored state (<<state>>, or <<>> once the
\* resource is removed) and the diagnostics after DeleteDnsRecord, called with
\* the state's domain name and a record of the state's fields, has returned
\* res.
Delete(state, res) ==
    IF res.err # ""
    THEN [state |-> <<state>>, diagnostics |-> <<"Error deleting record">>]
    ELSE [state |-> <<>>, diagnostics |-> <<>>]

IsGet(c) == c.op \in {"GetDnsRecords", "GetDnsRecordById"}
IsWrite(c) == c.op \in {"CreateDnsRecord", "UpdateDnsRecord", "DeleteDnsRecord"}

\* GetDnsRecords, called by goroutine p alone or from GetDnsRecordById, has
\* returned a list without error.
GetReturned(p) ==
    /\ pc[p] = "done" /\ IsGet(call[p])
    /\ obs[p].hit \/ (~body[p].err /\ body[p].decodable)

Max(a, b) == IF a >= b THEN a ELSE b

\* The operation returns to its caller.  With one caller (sequential), the
\* history is kept: the list the last Get of a domain returned, until the next
\* write to the domain is called, and the write or the failed Get that
\* returned last, until the next call.
Return(p, sequential) ==
    /\ Running /\ pc[p] = "done"
    /\ LET d == call[p].domainName IN
        IF ~sequential
        THEN /\ UNCHANGED <<lastGet, lastCall>>
             /\ retVer' = IF IsWrite(call[p])
                          THEN [retVer EXCEPT ![d] = Max(retVer[d], obs[p].ver)]
                          ELSE retVer
        ELSE IF IsWrite(call[p])
        THEN /\ lastGet' = lastGet
             /\ lastCall' =
                    IF call[p].op = "DeleteDnsRecord" /\ result[p].err = ""
                    THEN [op |-> "deleted", domainName |-> d,
                          id |-> call[p].record[1].Id, applied |-> obs[p].ver # 0]
                    ELSE [NoWrite EXCEPT !.op = "written", !.domainName = d]
             /\ retVer' = [retVer EXCEPT ![d] = Max(retVer[d], obs[p].ver)]
        ELSE /\ lastGet' = IF GetReturned(p) THEN [lastGet EXCEPT ![d] = <<records[p]>>]
                           ELSE lastGet
             /\ lastCall' = IF GetReturned(p) THEN NoWrite
                            ELSE [NoWrite EXCEPT !.op = "failed", !.domainName = d]
             /\ retVer' = retVer
    /\ pc' = [pc EXCEPT ![p] = "idle"]
    /\ call' = [call EXCEPT ![p] = NoCall]
    /\ body' = [body EXCEPT ![p] = NoBody]
    /\ records' = [records EXCEPT ![p] = <<>>]
    /\ result' = [result EXCEPT ![p] = NoResult]
    /\ reqs' = [reqs EXCEPT ![p] = 0]
    /\ obs' = [obs EXCEPT ![p] = NoObs]
    /\ UNCHANGED <<DnsRecordsByDomain, zone, clock, crashed, cacheVer, zoneVer>>
    /\ UNCHANGED <<sessionVars, fnVars>>

\* ---------------------------------------------------- specifications

\* A step of goroutine p, whose callers create and update records from the
\* precursors news.
Step(p, news, sequential) ==
    \/ GetDnsRecords(p)
    \/ GetDnsRecordById(p)
    \/ Lookup(p)
    \/ Fetch(p)
    \/ Store(p)
    \/ CreateDnsRecord(p, news)
    \/ UpdateDnsRecord(p, news)
    \/ DeleteDnsRecord(p)
    \/ Flush(p)
    \/ Request(p)
    \/ Return(p, sequential)

\* Goroutines call the client concurrently.  What the interleavings decide
\* does not depend on the fields of a record: these callers create and update
\* from one precursor.
ConcurrentNewDnsRecords ==
    { [Hostname |-> "@", Type |-> "A", Priority |-> "", Destination |-> "1.2.3.4"] }

Next == \E p \in Procs : Step(p, ConcurrentNewDnsRecords, FALSE)

Spec == Init /\ [][Next]_vars

\* Goroutines call the client concurrently, and a goroutine that is inside an
\* operation goes on: the scheduler runs it, and its Transport request ends,
\* with a response or with the error of the 10 second timeout of the HTTP
\* client.
Proceed(p) == Lookup(p) \/ Fetch(p) \/ Store(p) \/ Flush(p) \/ Request(p)

SpecLive == Init /\ [][Next]_vars /\ \A p \in Procs : WF_vars(Proceed(p))

\* One caller: goroutine g1 calls the client, one operation after the other.
NextSeq == Step("g1", NewDnsRecords, TRUE)

SpecSeq == Init /\ [][NextSeq]_vars

\* A client from its construction on: NewCCPClient logs in, then one caller
\* calls the client while the remote system may end the session.
InitNew ==
    /\ InitOperations /\ NoFunction
    /\ authData = NoAuthData /\ ctor = NoCtor /\ session = "none" /\ logins = 0

NextNew ==
    \/ NewCCPClient
    \/ Invalidate
    \/ Step("g1", ConcurrentNewDnsRecords, TRUE)

SpecNew == InitNew /\ [][NextNew]_vars

\* The functions of the client, each applied to inputs drawn from the values
\* its arguments range over.
Hostnames == {"@", "www"}
Types == {"A", "MX"}
Priorities == {"", "0", "10"}
Destinations == {"1.2.3.4", "mail"}

AllNewDnsRecords ==
    [Hostname : Hostnames, Type : Types, Priority : Priorities,
     Destination : Destinations]

AllDnsRecords == { MkDnsRecord(1, n, FALSE, "unknown") : n \in AllNewDnsRecords }

\* The calls of UpdateDnsRecord and DeleteDnsRecord with a record of the type
\* DnsRecord, its deletion flag unset, as the provider builds it, or set.
RecordCalls ==
    { [NoCall EXCEPT !.op = op, !.domainName = "a.de",
                     !.record = <<[r EXCEPT !.DeleteRecord = del]>>] :
          op \in {"UpdateDnsRecord", "DeleteDnsRecord"}, r \in AllDnsRecords,
          del \in BOOLEAN }

FnInputs ==
    { [fn |-> "doRequest", x |-> x] : x \in Exchanges }
    \cup { [fn |-> "Matches", r |-> r, r2 |-> r2] :
              r \in AllNewDnsRecords, r2 \in AllDnsRecords }
    \cup { [fn |-> "Sent", c |-> c] : c \in RecordCalls }

InitFn ==
    /\ InitOperations /\ Constructed
    /\ input \in FnInputs /\ output = NoOutput

CallDoRequest ==
    /\ input.fn = "doRequest" /\ output = NoOutput
    /\ output' = <<doRequest(input.x)>>
    /\ UNCHANGED <<operationVars, sessionVars, input>>

CallMatches ==
    /\ input.fn = "Matches" /\ output = NoOutput
    /\ output' = <<Matches(input.r, input.r2)>>
    /\ UNCHANGED <<operationVars, sessionVars, input>>

\* The record UpdateDnsRecord or DeleteDnsRecord puts in its request; the
\* caller's record is passed by value and stays as it is.
CallSent ==
    /\ input.fn = "Sent" /\ output = NoOutput
    /\ output' = <<Sent(input.c)>>
    /\ UNCHANGED <<operationVars, sessionVars, input>>

NextFn == CallDoRequest \/ CallMatches \/ CallSent

SpecFn == InitFn /\ [][NextFn]_vars

\* ------------------------------------------------------------ claims

Returned(p) == pc[p] = "done"

\* The precursor n matches record r structurally: hostname, type and
\* destination are equal and, when n gives a priority, the priorities are.
StructuralMatch(n, r) ==
    /\ n.Hostname = r.Hostname /\ n.Type = r.Type /\ n.Destination = r.Destination
    /\ n.Priority = "" \/ n.Priority = r.Priority

MatchingPositions(recs, n) == {i \in 1..Len(recs) : StructuralMatch(n, recs[i])}

\* CreateDnsRecord of goroutine p has returned and its response was decoded.
CreateDecoded(p) ==
    /\ Returned(p) /\ call[p].op = "CreateDnsRecord"
    /\ ~body[p].err /\ body[p].decodable

\* C1: with one caller, a GetDnsRecords(D) that finds no cache entry and
\* succeeds has issued exactly one Transport request; a GetDnsRecords(D) that
\* follows a successful one with no write to D in between issues no request
\* and returns the same list, an empty list included.
C1_GetFetchesOnceThenServesCache ==
    \A p \in Procs : GetReturned(p) =>
        LET d == call[p].domainName IN
        /\ ~obs[p].hit => reqs[p] = 1
        /\ lastGet[d] # <<>> => reqs[p] = 0 /\ records[p] = lastGet[d][1]
        /\ call[p].op = "GetDnsRecords" => result[p].records = records[p]

\* C1 witness: a second GetDnsRecords of a domain whose first one returned the
\* empty list has returned.
C1_Witness ==
    \E p \in Procs :
        /\ GetReturned(p) /\ call[p].op = "GetDnsRecords"
        /\ lastGet[call[p].domainName] = << <<>> >>

\* C2: with one caller, the GetDnsRecords(D) called right after a
\* CreateDnsRecord, UpdateDnsRecord or DeleteDnsRecord for D has returned,
\* with or without error, finds no cache entry and issues exactly one
\* Transport request.
C2_GetAfterWriteFetches ==
    \A p \in Procs :
        Returned(p) /\ IsGet(call[p]) /\ obs[p].after.op \in {"written", "deleted"} =>
            ~obs[p].hit /\ reqs[p] = 1

\* C2 witness: such a Get has returned.
C2_Witness ==
    \E p \in Procs :
        /\ Returned(p) /\ call[p].op = "GetDnsRecords" /\ obs[p].after.op = "written"
        /\ result[p].err = "" /\ result[p].records # <<>>

\* C3: a GetDnsRecords(D) that is called after a mutating call for D has
\* returned returns a list fetched from the remote system after that
\* mutation, also when another GetDnsRecords(D) was in flight meanwhile.
C3_ReadYourWrites ==
    \A p \in Procs : GetReturned(p) => obs[p].ver >= obs[p].need

\* C4 as claimed: with one caller, the GetDnsRecords(D) that follows a
\* DeleteDnsRecord(D, r) that returned success returns a list without a record
\* of identifier r.Id.
C4_DeletedIdNotReturned ==
    \A p \in Procs :
        GetReturned(p) /\ obs[p].after.op = "deleted" =>
            ~HasId(records[p], obs[p].after.id)

\* C4 as amended: that GetDnsRecords(D) finds no cache entry, issues one
\* Transport request and returns the list decoded from its response, which is
\* the zone when the envelope reports success; the list holds no record of
\* identifier r.Id when the remote system applied the deletion.
C4_GetAfterDeleteRefetches ==
    \A p \in Procs :
        GetReturned(p) /\ obs[p].after.op = "deleted" =>
            /\ ~obs[p].hit /\ reqs[p] = 1
            /\ records[p] = body[p].dnsrecords
            /\ body[p].status = "success" => records[p] = zone[call[p].domainName]
            /\ obs[p].after.applied => ~HasId(records[p], obs[p].after.id)

\* C4 witness: the Get after an applied deletion has returned the zone as the
\* remote system answered it.
C4_Witness ==
    \E p \in Procs :
        /\ GetReturned(p) /\ obs[p].after.op = "deleted" /\ obs[p].after.applied
        /\ body[p].status = "success" /\ reqs[p] = 1

\* C5: no two goroutines access the cache map at the same time when one of
\* the accesses is a store or an invalidation.
C5_CacheMutualExclusion == \A p \in Procs : ~Races(p)

\* C6: a step of an operation on one domain leaves the cache entries and the
\* zones of the other domains as they are, and never ends an operation that
\* is in flight on another domain.
C6_DomainsIndependent ==
    [][ /\ \A p \in Procs : pc'[p] # pc[p] =>
              LET d == IF pc[p] = "idle" THEN call'[p].domainName
                       ELSE call[p].domainName
              IN  \A e \in Domains \ {d} :
                    /\ Present(DnsRecordsByDomain', e) = Present(DnsRecordsByDomain, e)
                    /\ Present(DnsRecordsByDomain, e) =>
                          DnsRecordsByDomain'[e] = DnsRecordsByDomain[e]
                    /\ zone'[e] = zone[e]
        /\ crashed' /\ ~crashed =>
              \A p, q \in Procs :
                  pc[p] # "idle" /\ pc[q] # "idle" =>
                      call[p].domainName = call[q].domainName
      ]_vars

\* C7 as claimed: CreateDnsRecord fails and returns no record whenever its
\* response holds two or more records that match the precursor.
C7_AmbiguousCreateFails ==
    \A p \in Procs :
        /\ CreateDecoded(p)
        /\ Cardinality(MatchingPositions(body[p].dnsrecords, call[p].newRecord[1])) >= 2
        => result[p].err # "" /\ result[p].record = Nil

\* C7 as amended: with two or more matching records in the response
\* CreateDnsRecord does not fail; it returns, without error, a record of the
\* response that matches the precursor.
C7_AmbiguousCreateReturnsMatch ==
    \A p \in Procs :
        LET at == MatchingPositions(body[p].dnsrecords, call[p].newRecord[1]) IN
        CreateDecoded(p) /\ Cardinality(at) >= 2 =>
            /\ result[p].err = ""
            /\ \E i \in at : result[p].record = <<body[p].dnsrecords[i]>>

\* C7 witness: a CreateDnsRecord has returned whose response held two
\* matching records.
C7_Witness ==
    \E p \in Procs :
        /\ CreateDecoded(p)
        /\ Cardinality(MatchingPositions(body[p].dnsrecords, call[p].newRecord[1])) = 2

\* C8: when exactly one record of the response matches the precursor,
\* CreateDnsRecord returns that record, every field as in the response,
\* wherever the record stands and whatever records stand around it.
C8_UniqueMatchReturned ==
    \A p \in Procs :
        LET at == MatchingPositions(body[p].dnsrecords, call[p].newRecord[1]) IN
        CreateDecoded(p) /\ Cardinality(at) = 1 =>
            /\ result[p].err = ""
            /\ \A i \in at : result[p].record = <<body[p].dnsrecords[i]>>

\* C8 witness: the one matching record stood last, behind a record that does
\* not match.
C8_Witness ==
    \E p \in Procs :
        /\ CreateDecoded(p)
        /\ MatchingPositions(body[p].dnsrecords, call[p].newRecord[1]) = {2}
        /\ result[p].record # Nil /\ result[p].record[1].Id = 2

\* C9: CreateDnsRecord fails and returns no record whenever no record of the
\* decoded response matches the precursor, an empty response included.
C9_NoMatchFails ==
    \A p \in Procs :
        /\ CreateDecoded(p)
        /\ MatchingPositions(body[p].dnsrecords, call[p].newRecord[1]) = {}
        => result[p].err # "" /\ result[p].record = Nil

\* C9 witness: a CreateDnsRecord has failed on a response that held records,
\* none of them matching.
C9_Witness ==
    \E p \in Procs :
        /\ CreateDecoded(p) /\ body[p].dnsrecords # <<>>
        /\ MatchingPositions(body[p].dnsrecords, call[p].newRecord[1]) = {}
        /\ result[p].err # ""

\* C10: with one caller, GetDnsRecordById(D, id) on a cached list of D that
\* holds no record of that identifier fails with the not-found error, returns
\* no record, issues no Transport request and leaves D's cache entry as it
\* was.
C10_CachedMissNotFound ==
    \A p \in Procs :
        /\ Returned(p) /\ call[p].op = "GetDnsRecordById" /\ obs[p].hit
        /\ ~HasId(records[p], call[p].id)
        => /\ result[p].err = "could not find DNS record with ID"
           /\ result[p].record = Nil
           /\ reqs[p] = 0
           /\ Present(DnsRecordsByDomain, call[p].domainName)
           /\ DnsRecordsByDomain[call[p].domainName] = records[p]

\* C10 witness: the cached list held a record, of another identifier.
C10_Witness ==
    \E p \in Procs :
        /\ Returned(p) /\ call[p].op = "GetDnsRecordById" /\ obs[p].hit
        /\ records[p] # <<>> /\ ~HasId(records[p], call[p].id)

\* UpdateDnsRecord of goroutine p has returned and its response was decoded.
UpdateDecoded(p) ==
    /\ Returned(p) /\ call[p].op = "UpdateDnsRecord"
    /\ ~body[p].err /\ body[p].decodable

\* The positions of the records of identifier id.
IdPositions(recs, id) == {i \in 1..Len(recs) : recs[i].Id = id}

\* The prior state and the plan of the provider's Update that made call c:
\* the record's identifier is the state's, the domain name is the plan's.
PriorStates(c) ==
    { [ID |-> c.record[1].Id, Domainname |-> d, Hostname |-> "@", Type |-> "A",
       Priority |-> "", Destination |-> "1.2.3.4"] : d \in Domains }
PlanOf(c) ==
    [Domainname |-> c.domainName, Hostname |-> c.record[1].Hostname,
     Type |-> c.record[1].Type, Priority |-> c.record[1].Priority,
     Destination |-> c.record[1].Destination]

\* C11: UpdateDnsRecord(D, r) whose response was decoded returns the record
\* of the response whose identifier is r.Id, every field as in the response
\* and wherever it stands, and fails with the not-found error and no record
\* when the response holds no such record; the state the provider's Update
\* then writes has the prior state's id and the planned domain name.
C11_UpdateReturnsRecordOfId ==
    \A p \in Procs : UpdateDecoded(p) =>
        LET recs == body[p].dnsrecords
            at == IdPositions(recs, call[p].record[1].Id)
        IN  /\ at = {} => /\ result[p].err = "could not find DNS record with ID"
                          /\ result[p].record = Nil
            /\ at # {} => /\ result[p].err = ""
                          /\ \A i \in at : result[p].record = <<recs[i]>>
                          /\ \A state \in PriorStates(call[p]) :
                                LET new == Update(state, PlanOf(call[p]), result[p])
                                IN  /\ new.ID = state.ID
                                    /\ new.Domainname = call[p].domainName
                                    /\ new.Hostname = recs[CHOOSE i \in at : TRUE].Hostname

\* C11 witness: the record of the identifier stood second in the response,
\* behind a record of another identifier.
C11_Witness ==
    \E p \in Procs :
        /\ UpdateDecoded(p) /\ Len(body[p].dnsrecords) = 2
        /\ IdPositions(body[p].dnsrecords, call[p].record[1].Id) = {2}
        /\ result[p].err = ""

\* The call of goroutine p was made after the remote system had ended the
\* session, and has returned.
ReturnedAfterInvalidation(p) == Returned(p) /\ obs[p].session = "invalid"

\* C12 as claimed: every call made after the remote system ended the session
\* fails, and no login request is sent beyond the one of the construction.
C12_CallsFailAfterInvalidation ==
    \A p \in Procs : ReturnedAfterInvalidation(p) =>
        result[p].err # "" /\ logins = 1

\* C12 as amended: after the remote system ended the session no call sends a
\* login request, no call's request is served, and a call fails exactly when
\* its own request fails, its response is needed and undecodable, or the
\* record it looks for is not in the list it got.  GetDnsRecords of a cached
\* domain returns the cached list without a request; GetDnsRecords of an
\* uncached domain returns the empty list of a decodable rejection and caches
\* it; DeleteDnsRecord returns success for every rejection that is a 200
\* response.
C12_NoReloginAfterInvalidation ==
    \A p \in Procs : ReturnedAfterInvalidation(p) =>
        LET c == call[p]
            decoded == ~body[p].err /\ body[p].decodable
        IN  /\ logins = 1 /\ reqs[p] <= 1
            /\ body[p].status # "success"
            /\ IsWrite(c) => obs[p].ver = 0
            /\ obs[p].hit => reqs[p] = 0
            /\ result[p].err = "" <=>
                  \/ c.op = "GetDnsRecords" /\ (obs[p].hit \/ decoded)
                  \/ c.op = "GetDnsRecordById" /\ obs[p].hit /\ HasId(records[p], c.id)
                  \/ c.op = "DeleteDnsRecord" /\ ~body[p].err
            /\ c.op = "GetDnsRecords" /\ ~obs[p].hit /\ decoded =>
                  /\ result[p].records = <<>>
                  /\ Present(DnsRecordsByDomain, c.domainName)
                  /\ DnsRecordsByDomain[c.domainName] = <<>>

\* C12 witness: a GetDnsRecords called after the session ended has returned
\* the cached records without error.
C12_Witness ==
    \E p \in Procs :
        /\ ReturnedAfterInvalidation(p) /\ call[p].op = "GetDnsRecords"
        /\ obs[p].hit /\ result[p].err = "" /\ result[p].records # <<>>

\* The login request failed, or its response was no LoginResponse.
LoginFailed == ctor.body.err \/ ~ctor.body.decodable

\* C13: NewCCPClient returns a client or an error, never both and never
\* neither; it returns an error and no client whenever the login request
\* failed or its response could not be decoded, and a client only after a
\* login response was decoded and its session id stored with the customer
\* number and the API key.
C13_ClientOrFailure ==
    ctor.called =>
        /\ ctor.client <=> ctor.err = ""
        /\ LoginFailed => ~ctor.client /\ ctor.err # "" /\ authData = NoAuthData
        /\ ctor.client =>
              /\ ~LoginFailed /\ ctor.reqs = 1
              /\ authData = [CustomerNumber |-> Credentials.CustomerNumber,
                             APIKey |-> Credentials.APIKey,
                             SessionId |-> ctor.body.apisessionid]

\* C13 witness: the login request failed and NewCCPClient returned an error
\* and no client.
C13_Witness == ctor.called /\ ctor.body.err /\ ~ctor.client /\ ctor.err # ""

\* C14: the error of a failed Transport request and the error of a failed
\* decoding are what the operation that hit them returns, for login and for
\* the five operations.
C14_ErrorsReturnedUnchanged ==
    /\ ctor.called =>
          /\ ctor.body.err => ctor.err = "transport"
          /\ ~ctor.body.err /\ ~ctor.body.decodable => ctor.err = "decode"
    /\ \A p \in Procs : Returned(p) /\ reqs[p] = 1 =>
          /\ body[p].err => result[p].err = "transport"
          /\ ~body[p].err /\ ~body[p].decodable /\ call[p].op # "DeleteDnsRecord"
                => result[p].err = "decode"

\* C15: login and every operation issue at most one Transport request per
\* invocation, and an invocation whose request failed has ended with an
\* error and no result after that one request.
C15_NoRetries ==
    /\ ctor.reqs <= 1 /\ logins <= 1
    /\ ctor.called /\ ctor.body.err => ctor.err # "" /\ ~ctor.client /\ ctor.reqs = 1
    /\ \A p \in Procs :
          /\ reqs[p] <= 1
          /\ body[p].err =>
                /\ Returned(p) /\ reqs[p] = 1
                /\ result[p].err # "" /\ result[p].record = Nil
                /\ result[p].records = <<>>

\* C15 witness: a GetDnsRecordById has ended with the error of its one
\* failed request.
C15_Witness ==
    \E p \in Procs :
        /\ Returned(p) /\ call[p].op = "GetDnsRecordById"
        /\ body[p].err /\ reqs[p] = 1 /\ result[p].err = "transport"

\* C16: doRequest returns the response body and no error exactly when the
\* exchange completed, its body was read and its status is 200; in every
\* other case it returns an error and no body.
C16_BodyExactlyOn200 ==
    input.fn = "doRequest" /\ output # NoOutput =>
        LET x == input.x
            ret == output[1]
            ok == x.do = "ok" /\ x.read = "ok" /\ x.StatusCode = 200
        IN  /\ ok => ret.err = "" /\ ret.body = <<x.body>>
            /\ ~ok => ret.err # "" /\ ret.body = Nil

\* C16 witness: doRequest has returned for a response of status 201 whose
\* body was read.
C16_Witness ==
    /\ input.fn = "doRequest" /\ output # NoOutput
    /\ input.x.do = "ok" /\ input.x.read = "ok" /\ input.x.StatusCode = 201
    /\ output[1].err # ""

\* A cache lookup of a GetDnsRecords overlaps the removal of the same domain's
\* entry by a write.
LookupRacesFlush ==
    \E p, q \in Procs :
        /\ pc[p] = "lookup" /\ pc[q] = "flush"
        /\ call[p].domainName = call[q].domainName

\* C17: a write issues its Transport request only once it has removed the
\* domain's cache entry, whatever the request then returns; the cache lookup
\* of a GetDnsRecords ends with the whole cached list or with a miss that
\* goes on to fetch, also when it overlaps the removal by a write.
C17_InvalidationPrecedesRequest ==
    [][ /\ \A p \in Procs :
              LET d == call[p].domainName IN
              /\ reqs'[p] > reqs[p] /\ IsWrite(call[p]) => pc[p] = "request"
              /\ pc'[p] = "request" /\ pc[p] # "request" =>
                    pc[p] = "flush" /\ ~Present(DnsRecordsByDomain', d)
              /\ pc[p] = "lookup" /\ pc'[p] # "lookup" =>
                    \/ /\ pc'[p] = "done" /\ Present(DnsRecordsByDomain, d)
                       /\ records'[p] = DnsRecordsByDomain[d]
                    \/ pc'[p] = "fetch" /\ ~Present(DnsRecordsByDomain, d)
        /\ LookupRacesFlush => crashed' = crashed
      ]_vars

\* C18: a cache entry never holds a list older than the latest mutation of
\* its domain whose call has returned.
C18_CacheEntryCurrent ==
    \A d \in DOMAIN DnsRecordsByDomain : cacheVer[d] >= retVer[d]

\* C19: when records of the response match the precursor, CreateDnsRecord
\* returns, without error, the matching record that stands first in the
\* response.
C19_FirstMatchReturned ==
    \A p \in Procs :
        LET recs == body[p].dnsrecords
            at == MatchingPositions(recs, call[p].newRecord[1])
        IN  CreateDecoded(p) /\ at # {} =>
                /\ result[p].err = ""
                /\ \E i \in at : /\ \A j \in at : i <= j
                                  /\ result[p].record = <<recs[i]>>

\* C19 witness: two records of different priority matched, and the first of
\* them was returned.
C19_Witness ==
    \E p \in Procs :
        /\ CreateDecoded(p)
        /\ MatchingPositions(body[p].dnsrecords, call[p].newRecord[1]) = {1, 2}
        /\ body[p].dnsrecords[1].Priority # body[p].dnsrecords[2].Priority
        /\ result[p].record = <<body[p].dnsrecords[1]>>

\* C20: Matches is true exactly when hostname, type and destination are
\* equal and, if the precursor's priority is not empty, the priorities are
\* equal; a precursor of empty priority matches a record of any priority.
C20_MatchesIsStructural ==
    input.fn = "Matches" /\ output # NoOutput =>
        LET r == input.r
            r2 == input.r2
        IN  /\ output[1] <=>
                  /\ r.Hostname = r2.Hostname /\ r.Type = r2.Type
                  /\ r.Destination = r2.Destination
                  /\ r.Priority # "" => r.Priority = r2.Priority
            /\ ( /\ r.Priority = "" /\ r.Hostname = r2.Hostname /\ r.Type = r2.Type
                 /\ r.Destination = r2.Destination ) => output[1]

\* C20 witness: a precursor of empty priority has matched a record of
\* priority 10.
C20_Witness ==
    /\ input.fn = "Matches" /\ output = <<TRUE>>
    /\ input.r.Priority = "" /\ input.r2.Priority = "10"

\* The triple of the customer number, the API key and the session id decoded
\* from the login response.
LoginTriple ==
    [CustomerNumber |-> Credentials.CustomerNumber, APIKey |-> Credentials.APIKey,
     SessionId |-> ctor.body.apisessionid]

\* C21: one login request is sent, by the construction and before any other
\* request; afterwards the client holds the triple of customer number, API
\* key and the session id decoded from the login response, unchanged, and
\* every infoDnsRecords and updateDnsRecords request carries that triple.
C21_SessionObtainedOnce ==
    /\ logins = IF ctor.called THEN 1 ELSE 0
    /\ ~ctor.called => \A p \in Procs : pc[p] = "idle" /\ reqs[p] = 0
    /\ ctor.client => authData = LoginTriple
    /\ \A p \in Procs : reqs[p] >= 1 =>
          /\ ctor.client
          /\ obs[p].req.action \in {"infoDnsRecords", "updateDnsRecords"}
          /\ obs[p].req.AuthData = LoginTriple
          /\ obs[p].req.DomainName = call[p].domainName

\* C21 witness: an UpdateDnsRecord has sent its request with the session id
\* of the login response.
C21_Witness ==
    \E p \in Procs :
        /\ Returned(p) /\ call[p].op = "UpdateDnsRecord" /\ reqs[p] = 1
        /\ obs[p].req.AuthData.SessionId = SessionId
        /\ ctor.body.apisessionid = SessionId

\* The record set of a request was built for a call of UpdateDnsRecord or
\* DeleteDnsRecord.
SentBuilt == input.fn = "Sent" /\ output # NoOutput

DeleteReturned(p) == Returned(p) /\ call[p].op = "DeleteDnsRecord"

\* C23: DeleteDnsRecord returns success exactly when its one Transport
\* request returned without error, and the error of the request otherwise,
\* whatever the response body is: undecodable, an envelope that reports an
\* error, or the zone after the deletion.
C23_DeleteSucceedsOn200 ==
    \A p \in Procs : DeleteReturned(p) =>
        /\ reqs[p] = 1
        /\ result[p].err = "" <=> ~body[p].err
        /\ body[p].err => result[p].err = "transport"
        /\ result[p].record = Nil /\ result[p].records = <<>>

\* C23 witness: a DeleteDnsRecord has returned success on a response that
\* could not be decoded.
C23_Witness ==
    \E p \in Procs :
        /\ DeleteReturned(p) /\ ~body[p].err /\ ~body[p].decodable
        /\ result[p].err = ""

\* The one request of goroutine p's call was answered with a decodable
\* envelope that does not report success, and the call has returned.
ReturnedOnErrorStatus(p) ==
    /\ Returned(p) /\ reqs[p] = 1
    /\ ~body[p].err /\ body[p].decodable /\ body[p].status # "success"

\* C24: every operation treats a decodable response that reports an error
\* like one that reports success.  GetDnsRecords returns its record list
\* without error and stores it in the cache; the writes return what they
\* return for a list of these records.  With one caller, a later GetDnsRecords
\* of the domain is served the cached list without a Transport request.
C24_ErrorStatusIsSuccess ==
    \A p \in Procs :
        LET c == call[p]
            recs == body[p].dnsrecords
        IN  /\ ReturnedOnErrorStatus(p) =>
                /\ IsGet(c) =>
                      /\ records[p] = recs
                      /\ Present(DnsRecordsByDomain, c.domainName)
                      /\ DnsRecordsByDomain[c.domainName] = recs
                /\ c.op = "GetDnsRecords" =>
                      result[p].err = "" /\ result[p].records = recs
                /\ c.op = "GetDnsRecordById" =>
                      (result[p].err = "" <=> HasId(recs, c.id))
                /\ c.op = "DeleteDnsRecord" => result[p].err = ""
                /\ c.op = "UpdateDnsRecord" =>
                      (result[p].err = "" <=> HasId(recs, c.record[1].Id))
                /\ c.op = "CreateDnsRecord" =>
                      (result[p].err = "" <=> MatchingPositions(recs, c.newRecord[1]) # {})
            /\ GetReturned(p) /\ obs[p].hit =>
                /\ reqs[p] = 0
                /\ records[p] = DnsRecordsByDomain[c.domainName]
                /\ c.op = "GetDnsRecords" =>
                      result[p].err = "" /\ result[p].records = records[p]

\* C24 witness: a GetDnsRecords has been served, without a request, the empty
\* list cached from an envelope that reported an error, while the zone holds
\* a record.
C24_Witness ==
    \E p \in Procs :
        /\ GetReturned(p) /\ call[p].op = "GetDnsRecords" /\ obs[p].hit
        /\ reqs[p] = 0 /\ records[p] = <<>> /\ zone[call[p].domainName] # <<>>

\* The GetDnsRecords of goroutine p's call was called right after a
\* GetDnsRecords of the same domain had failed, and the call has returned.
ReturnedAfterFailedGet(p) ==
    Returned(p) /\ IsGet(call[p]) /\ obs[p].after.op = "failed"

\* C25: the step in which a GetDnsRecords(D) fails, on a Transport error or
\* an undecodable response, leaves the whole cache as it was, without an
\* entry for D, and so does its return; with one caller, the GetDnsRecords(D)
\* called next finds no entry and issues one Transport request.
C25_FailedGetLeavesCache ==
    [][ \A p \in Procs :
          LET d == call[p].domainName IN
          /\ pc[p] = "fetch" /\ pc'[p] = "done" =>
                /\ body'[p].err \/ ~body'[p].decodable
                /\ result'[p].err \in {"transport", "decode"}
                /\ DnsRecordsByDomain' = DnsRecordsByDomain
                /\ ~Present(DnsRecordsByDomain', d)
          /\ pc[p] = "done" /\ pc'[p] = "idle" =>
                DnsRecordsByDomain' = DnsRecordsByDomain
          /\ ReturnedAfterFailedGet(p)' => (~obs[p].hit /\ reqs[p] = 1)'
      ]_vars

\* C25 witness: the GetDnsRecords called after a failed one has fetched the
\* domain's records and returned them.
C25_Witness ==
    \E p \in Procs :
        /\ ReturnedAfterFailedGet(p) /\ call[p].op = "GetDnsRecords"
        /\ result[p].err = "" /\ result[p].records # <<>>

\* Goroutine p is inside an operation that has not returned yet.
InFlight(p) == pc[p] \in {"lookup", "fetch", "store", "flush", "request"}

\* C26: every operation a goroutine has called eventually returns, a result
\* or an error, whatever the other goroutine does.
C26_EveryOperationReturns ==
    \A p \in Procs : InFlight(p) ~> Returned(p)

\* The stored state of the provider's Delete that made call c: the record's
\* fields and the domain name are the state's.
StateOf(c) ==
    [ID |-> c.record[1].Id, Domainname |-> c.domainName,
     Hostname |-> c.record[1].Hostname, Type |-> c.record[1].Type,
     Priority |-> c.record[1].Priority, Destination |-> c.record[1].Destination]

\* C27: once DeleteDnsRecord has returned to the provider's Delete, the
\* resource is removed from the stored state and no diagnostic is reported
\* if it returned no error; if it returned an error, the stored state is as
\* it was and an error diagnostic is reported.
C27_RemovedOnlyAfterSuccess ==
    \A p \in Procs : DeleteReturned(p) =>
        LET state == StateOf(call[p])
            after == Delete(state, result[p])
        IN  /\ after.state = <<>> <=> ~body[p].err
            /\ body[p].err => after.state = <<state>> /\ after.diagnostics # <<>>
            /\ ~body[p].err => after.diagnostics = <<>>

\* C27 witness: DeleteDnsRecord has returned the error of its failed request
\* to the provider's Delete.
C27_Witness ==
    \E p \in Procs :
        /\ DeleteReturned(p) /\ body[p].err /\ result[p].err = "transport"
        /\ Delete(StateOf(call[p]), result[p]).state # <<>>

====
